---- MODULE Spec2Model ----
(***************************************************************************)
(* Package table of the aconfig storage file format                        *)
(* (tools/aconfig/aconfig_storage_file/src/package_table.rs): the header,  *)
(* node and table codecs, as pure operators over byte sequences, and a     *)
(* state machine that serializes a table (or its header, or one of its     *)
(* nodes), cuts or extends the buffer, and parses the buffer back.         *)
(*                                                                         *)
(* A String is modelled by its UTF-8 bytes, a Vec<u8> by a sequence of     *)
(* 0..255, Option<u32> by <<>> (None) or <<v>> (Some(v)), and a Result by  *)
(* a record tagged "Ok", "Err" or "Panic".  A cursor `head` counts the     *)
(* bytes consumed so far (0-based, as in the source).                      *)
(***************************************************************************)
EXTENDS Integers, Sequences, FiniteSets

VARIABLES table, bytes, result, pc, sel

vars == <<table, bytes, result, pc, sel>>

(***************************************************************************)
(* Bounds of the explored inputs.                                          *)
(***************************************************************************)
MaxNodes == 2
MaxPackages == 2
MaxExtra == 1

(***************************************************************************)
(* Option<u32> and Result.                                                 *)
(***************************************************************************)
None == <<>>
Some(v) == <<v>>
unwrap_or(o, d) == IF o = None THEN d ELSE o[1]

Ok(v, h) == [tag |-> "Ok", val |-> v, head |-> h]
Err(kind, msg) == [tag |-> "Err", kind |-> kind, msg |-> msg]
Panic(msg) == [tag |-> "Panic", msg |-> msg]

(***************************************************************************)
(* u32 <-> little-endian bytes.                                            *)
(***************************************************************************)
\* Every u32 of the explored inputs is below 2^31 and every buffer is shorter
\* than that, so the cast `len() as u32` loses nothing here.
to_le_bytes(v) ==
  << v % 256, (v \div 256) % 256, (v \div 65536) % 256, (v \div 16777216) % 256 >>

from_le_bytes(b) == b[1] + 256 * b[2] + 65536 * b[3] + 16777216 * b[4]

(***************************************************************************)
(* String::from_utf8: whether a byte sequence is well-formed UTF-8.        *)
(***************************************************************************)
IsCont(b) == b >= 128 /\ b <= 191

RECURSIVE Utf8Valid(_)
Utf8Valid(s) ==
  IF s = <<>> THEN TRUE
  ELSE LET b == s[1]
           n == Len(s)
       IN IF b <= 127 THEN Utf8Valid(Tail(s))
          ELSE IF b >= 194 /\ b <= 223
            THEN n >= 2 /\ IsCont(s[2]) /\ Utf8Valid(SubSeq(s, 3, n))
          ELSE IF b >= 224 /\ b <= 239
            THEN /\ n >= 3
                 /\ IsCont(s[2]) /\ IsCont(s[3])
                 /\ (b = 224 => s[2] >= 160)
                 /\ (b = 237 => s[2] <= 159)
                 /\ Utf8Valid(SubSeq(s, 4, n))
          ELSE IF b >= 240 /\ b <= 244
            THEN /\ n >= 4
                 /\ IsCont(s[2]) /\ IsCont(s[3]) /\ IsCont(s[4])
                 /\ (b = 240 => s[2] >= 144)
                 /\ (b = 244 => s[2] <= 143)
                 /\ Utf8Valid(SubSeq(s, 5, n))
          ELSE FALSE

(***************************************************************************)
(* The primitive cursor readers of the crate (lib.rs).  A read that the    *)
(* buffer cannot satisfy is a parse failure; the cursor advances only on   *)
(* success.                                                                *)
(***************************************************************************)
read_u32_from_bytes(buf, head) ==
  IF head + 4 > Len(buf)
  THEN Err("BytesParseFail", <<"fail to parse u32 from bytes">>)
  ELSE Ok(from_le_bytes(SubSeq(buf, head + 1, head + 4)), head + 4)

read_str_from_bytes(buf, head) ==
  LET n == read_u32_from_bytes(buf, head)
  IN IF n.tag # "Ok" THEN n
     ELSE IF n.head + n.val > Len(buf)
       THEN Err("BytesParseFail", <<"fail to parse string from bytes">>)
     ELSE LET s == SubSeq(buf, n.head + 1, n.head + n.val)
          IN IF Utf8Valid(s) THEN Ok(s, n.head + n.val)
             ELSE Err("BytesParseFail", <<"fail to parse string from bytes">>)

(***************************************************************************)
(* The sizing policy of the crate: the first prime of the table that is    *)
(* at least twice the number of entries.                                   *)
(***************************************************************************)
HASH_PRIMES ==
  << 7, 17, 29, 53, 97, 193, 389, 769, 1543, 3079, 6151, 12289, 24593, 49157,
     98317, 196613, 393241, 786433, 1572869, 3145739, 6291469, 12582917,
     25165843, 50331653, 100663319, 201326611, 402653189, 805306457,
     1610612741 >>

get_table_size(entries) ==
  LET fit == { i \in 1..Len(HASH_PRIMES) : HASH_PRIMES[i] >= 2 * entries }
  IN IF fit = {}
     THEN Err("HashTableSizeLimit",
              <<"Number of items in a hash table exceeds limit">>)
     ELSE Ok(HASH_PRIMES[CHOOSE i \in fit : \A j \in fit : i <= j], 0)

(***************************************************************************)
(* PackageTableHeader.                                                     *)
(***************************************************************************)
\* Faulty variant: the container is written before the version.
PackageTableHeader_as_bytes_container_first(h) ==
  to_le_bytes(Len(h.container))
    \o h.container
    \o to_le_bytes(h.version)
    \o to_le_bytes(h.file_size)
    \o to_le_bytes(h.num_packages)
    \o to_le_bytes(h.bucket_offset)
    \o to_le_bytes(h.node_offset)

PackageTableHeader_as_bytes(h) ==
  to_le_bytes(h.version)
    \o to_le_bytes(Len(h.container))
    \o h.container
    \o to_le_bytes(h.file_size)
    \o to_le_bytes(h.num_packages)
    \o to_le_bytes(h.bucket_offset)
    \o to_le_bytes(h.node_offset)

\* Faulty variant: num_packages is read before file_size.
PackageTableHeader_from_bytes_swapped(buf) ==
  LET version == read_u32_from_bytes(buf, 0)
  IN IF version.tag # "Ok" THEN version ELSE
  LET container == read_str_from_bytes(buf, version.head)
  IN IF container.tag # "Ok" THEN container ELSE
  LET num_packages == read_u32_from_bytes(buf, container.head)
  IN IF num_packages.tag # "Ok" THEN num_packages ELSE
  LET file_size == read_u32_from_bytes(buf, num_packages.head)
  IN IF file_size.tag # "Ok" THEN file_size ELSE
  LET bucket_offset == read_u32_from_bytes(buf, file_size.head)
  IN IF bucket_offset.tag # "Ok" THEN bucket_offset ELSE
  LET node_offset == read_u32_from_bytes(buf, bucket_offset.head)
  IN IF node_offset.tag # "Ok" THEN node_offset ELSE
     Ok([version |-> version.val,
         container |-> container.val,
         file_size |-> file_size.val,
         num_packages |-> num_packages.val,
         bucket_offset |-> bucket_offset.val,
         node_offset |-> node_offset.val],
        node_offset.head)

PackageTableHeader_from_bytes(buf) ==
  LET version == read_u32_from_bytes(buf, 0)
  IN IF version.tag # "Ok" THEN version ELSE
  LET container == read_str_from_bytes(buf, version.head)
  IN IF container.tag # "Ok" THEN container ELSE
  LET file_size == read_u32_from_bytes(buf, container.head)
  IN IF file_size.tag # "Ok" THEN file_size ELSE
  LET num_packages == read_u32_from_bytes(buf, file_size.head)
  IN IF num_packages.tag # "Ok" THEN num_packages ELSE
  LET bucket_offset == read_u32_from_bytes(buf, num_packages.head)
  IN IF bucket_offset.tag # "Ok" THEN bucket_offset ELSE
  LET node_offset == read_u32_from_bytes(buf, bucket_offset.head)
  IN IF node_offset.tag # "Ok" THEN node_offset ELSE
     Ok([version |-> version.val,
         container |-> container.val,
         file_size |-> file_size.val,
         num_packages |-> num_packages.val,
         bucket_offset |-> bucket_offset.val,
         node_offset |-> node_offset.val],
        node_offset.head)

(***************************************************************************)
(* PackageTableNode.                                                       *)
(***************************************************************************)
PackageTableNode_as_bytes(n) ==
  to_le_bytes(Len(n.package_name))
    \o n.package_name
    \o to_le_bytes(n.package_id)
    \o to_le_bytes(n.boolean_offset)
    \o to_le_bytes(unwrap_or(n.next_offset, 0))

\* Faulty variant: the next offset read is kept as it is, 0 included.
PackageTableNode_from_bytes_no_sentinel(buf) ==
  LET package_name == read_str_from_bytes(buf, 0)
  IN IF package_name.tag # "Ok" THEN package_name ELSE
  LET package_id == read_u32_from_bytes(buf, package_name.head)
  IN IF package_id.tag # "Ok" THEN package_id ELSE
  LET boolean_offset == read_u32_from_bytes(buf, package_id.head)
  IN IF boolean_offset.tag # "Ok" THEN boolean_offset ELSE
  LET next_offset == read_u32_from_bytes(buf, boolean_offset.head)
  IN IF next_offset.tag # "Ok" THEN next_offset ELSE
     Ok([package_name |-> package_name.val,
         package_id |-> package_id.val,
         boolean_offset |-> boolean_offset.val,
         next_offset |-> Some(next_offset.val)],
        next_offset.head)

PackageTableNode_from_bytes(buf) ==
  LET package_name == read_str_from_bytes(buf, 0)
  IN IF package_name.tag # "Ok" THEN package_name ELSE
  LET package_id == read_u32_from_bytes(buf, package_name.head)
  IN IF package_id.tag # "Ok" THEN package_id ELSE
  LET boolean_offset == read_u32_from_bytes(buf, package_id.head)
  IN IF boolean_offset.tag # "Ok" THEN boolean_offset ELSE
  LET next_offset == read_u32_from_bytes(buf, boolean_offset.head)
  IN IF next_offset.tag # "Ok" THEN next_offset ELSE
     Ok([package_name |-> package_name.val,
         package_id |-> package_id.val,
         boolean_offset |-> boolean_offset.val,
         next_offset |-> IF next_offset.val = 0 THEN None
                         ELSE Some(next_offset.val)],
        next_offset.head)

(***************************************************************************)
(* PackageTable.                                                           *)
(***************************************************************************)
RECURSIVE ConcatBuckets(_)
ConcatBuckets(bs) ==
  IF bs = <<>> THEN <<>>
  ELSE to_le_bytes(unwrap_or(bs[1], 0)) \o ConcatBuckets(Tail(bs))

RECURSIVE ConcatNodes(_)
ConcatNodes(ns) ==
  IF ns = <<>> THEN <<>>
  ELSE PackageTableNode_as_bytes(ns[1]) \o ConcatNodes(Tail(ns))

\* Faulty variant: the nodes are written before the bucket slots.
PackageTable_as_bytes_nodes_first(t) ==
  PackageTableHeader_as_bytes(t.header)
    \o ConcatNodes(t.nodes)
    \o ConcatBuckets(t.buckets)

PackageTable_as_bytes(t) ==
  PackageTableHeader_as_bytes(t.header)
    \o ConcatBuckets(t.buckets)
    \o ConcatNodes(t.nodes)

\* The bucket slots: each read is unwrapped, so a failed read panics.
\* Faulty variant: a slot read is kept as it is, 0 included.
RECURSIVE ReadBuckets_no_sentinel(_, _, _, _)
ReadBuckets_no_sentinel(buf, head, left, acc) ==
  IF left = 0 THEN Ok(acc, head)
  ELSE LET r == read_u32_from_bytes(buf, head)
       IN IF r.tag # "Ok"
          THEN Panic(<<"called Result::unwrap() on an Err value">>)
          ELSE ReadBuckets_no_sentinel(buf, r.head, left - 1,
                 Append(acc, Some(r.val)))

RECURSIVE ReadBuckets(_, _, _, _)
ReadBuckets(buf, head, left, acc) ==
  IF left = 0 THEN Ok(acc, head)
  ELSE LET r == read_u32_from_bytes(buf, head)
       IN IF r.tag # "Ok"
          THEN Panic(<<"called Result::unwrap() on an Err value">>)
          ELSE ReadBuckets(buf, r.head, left - 1,
                 Append(acc, IF r.val = 0 THEN None ELSE Some(r.val)))

\* The nodes: each is parsed from the slice at head, and head advances by the
\* length of the serialization of the node; the first failure ends the loop.
\* Faulty variant: the cursor advances by a fixed stride, the length of a node with a
\* name of one byte.
RECURSIVE ReadNodes_fixed_stride(_, _, _, _)
ReadNodes_fixed_stride(buf, head, left, acc) ==
  IF left = 0 THEN Ok(acc, head)
  ELSE IF head > Len(buf)
    THEN Panic(<<"range start index out of range for slice">>)
  ELSE LET r == PackageTableNode_from_bytes(SubSeq(buf, head + 1, Len(buf)))
       IN IF r.tag # "Ok" THEN r
          ELSE ReadNodes_fixed_stride(buf, head + 17, left - 1, Append(acc, r.val))

RECURSIVE ReadNodes(_, _, _, _)
ReadNodes(buf, head, left, acc) ==
  IF left = 0 THEN Ok(acc, head)
  ELSE IF head > Len(buf)
    THEN Panic(<<"range start index out of range for slice">>)
  ELSE LET r == PackageTableNode_from_bytes(SubSeq(buf, head + 1, Len(buf)))
       IN IF r.tag # "Ok" THEN r
          ELSE ReadNodes(buf, head + Len(PackageTableNode_as_bytes(r.val)),
                 left - 1, Append(acc, r.val))

\* The nodes that parse before the buffer ends, at most `left` of them.
RECURSIVE ReadNodesWhilePossible(_, _, _, _)
ReadNodesWhilePossible(buf, head, left, acc) ==
  IF left = 0 \/ head > Len(buf) THEN Ok(acc, head)
  ELSE LET r == PackageTableNode_from_bytes(SubSeq(buf, head + 1, Len(buf)))
       IN IF r.tag # "Ok" THEN Ok(acc, head)
          ELSE ReadNodesWhilePossible(buf,
                 head + Len(PackageTableNode_as_bytes(r.val)),
                 left - 1, Append(acc, r.val))

\* Faulty variant: a node that does not parse ends the node list without an error.
PackageTable_from_bytes_lenient(buf) ==
  LET header == PackageTableHeader_from_bytes(buf)
  IN IF header.tag # "Ok" THEN header ELSE
  LET num_packages == header.val.num_packages
      num_buckets == get_table_size(num_packages)
  IN IF num_buckets.tag # "Ok" THEN num_buckets ELSE
  LET buckets == ReadBuckets(buf, Len(PackageTableHeader_as_bytes(header.val)),
                             num_buckets.val, <<>>)
  IN IF buckets.tag # "Ok" THEN buckets ELSE
  LET nodes == ReadNodesWhilePossible(buf, buckets.head, num_packages, <<>>)
  IN Ok([header |-> header.val, buckets |-> buckets.val, nodes |-> nodes.val],
        nodes.head)

\* Faulty variant: the bucket array is looked for at header.bucket_offset.
PackageTable_from_bytes_at_bucket_offset(buf) ==
  LET header == PackageTableHeader_from_bytes(buf)
  IN IF header.tag # "Ok" THEN header ELSE
  LET num_packages == header.val.num_packages
      num_buckets == get_table_size(num_packages)
  IN IF num_buckets.tag # "Ok" THEN num_buckets ELSE
  LET buckets == ReadBuckets(buf, header.val.bucket_offset, num_buckets.val, <<>>)
  IN IF buckets.tag # "Ok" THEN buckets ELSE
  LET nodes == ReadNodes(buf, buckets.head, num_packages, <<>>)
  IN IF nodes.tag = "Panic" THEN nodes
     ELSE IF nodes.tag = "Err"
       THEN Err("BytesParseFail", <<"fail to parse package table">> \o nodes.msg)
     ELSE Ok([header |-> header.val, buckets |-> buckets.val, nodes |-> nodes.val],
             nodes.head)

PackageTable_from_bytes(buf) ==
  LET header == PackageTableHeader_from_bytes(buf)
  IN IF header.tag # "Ok" THEN header ELSE
  LET num_packages == header.val.num_packages
      num_buckets == get_table_size(num_packages)
  IN IF num_buckets.tag # "Ok" THEN num_buckets ELSE
  LET buckets == ReadBuckets(buf, Len(PackageTableHeader_as_bytes(header.val)),
                             num_buckets.val, <<>>)
  IN IF buckets.tag # "Ok" THEN buckets ELSE
  LET nodes == ReadNodes(buf, buckets.head, num_packages, <<>>)
  IN IF nodes.tag = "Panic" THEN nodes
     ELSE IF nodes.tag = "Err"
       THEN Err("BytesParseFail", <<"fail to parse package table">> \o nodes.msg)
     ELSE Ok([header |-> header.val, buckets |-> buckets.val, nodes |-> nodes.val],
             nodes.head)

(***************************************************************************)
(* The tables explored.  A PackageTable is a plain struct with public      *)
(* fields, so a table need not be well formed: the bucket and node counts  *)
(* may disagree with the header, and an offset may be Some(0).             *)
(***************************************************************************)
HeaderBases == { <<1234, <<195, 169>> >>, <<1, <<>> >> }

\* Name, id, boolean offset and the next offsets tried with them.
NodeBases ==
  { << <<97>>, 1, 0, {None, Some(0)} >>,
    << <<98, 99>>, 2, 261, {None, Some(300)} >> }

NodeValues ==
  UNION { { [package_name |-> nb[1], package_id |-> nb[2],
             boolean_offset |-> nb[3], next_offset |-> nx] : nx \in nb[4] }
          : nb \in NodeBases }

NodeLists == UNION { [1..n -> NodeValues] : n \in 0..MaxNodes }

\* The bucket arrays explored: all slots empty; one slot too few; Some(0) in
\* the first slot; the offset of the first node in the last slot.
BucketPatterns == { "empty", "short", "zero", "head" }

MkBuckets(size, pat, first) ==
  IF pat = "short" THEN [i \in 1..(size - 1) |-> None]
  ELSE [i \in 1..size |->
          IF pat = "zero" /\ i = 1 THEN Some(0)
          ELSE IF pat = "head" /\ i = size THEN Some(first)
          ELSE None]

MkTable(hb, np, pat, ns) ==
  LET exact == hb[1] = 1234
      size == get_table_size(np).val
      hlen == 24 + Len(hb[2])
      bk == MkBuckets(size, pat, hlen + 4 * size)
      nlen == Len(ConcatNodes(ns))
  IN [header |->
        [version |-> hb[1], container |-> hb[2],
         file_size |-> IF exact THEN hlen + 4 * Len(bk) + nlen ELSE 0,
         num_packages |-> np,
         bucket_offset |-> IF exact THEN hlen ELSE 0,
         node_offset |-> IF exact THEN hlen + 4 * Len(bk) ELSE 0],
      buckets |-> bk,
      nodes |-> ns]

Tables ==
  { MkTable(hb, np, pat, ns) :
      hb \in HeaderBases, np \in 0..MaxPackages,
      pat \in BucketPatterns, ns \in NodeLists }

ExtraBytes == { 0, 7 }

NoResult == [tag |-> "None"]

(***************************************************************************)
(* The state machine: serialize, cut or extend the buffer, parse.          *)
(***************************************************************************)
Init ==
  /\ table \in Tables
  /\ bytes = <<>>
  /\ result = NoResult
  /\ pc = "start"
  /\ sel = 0

HeaderAsBytes ==
  /\ pc = "start"
  /\ bytes' = PackageTableHeader_as_bytes(table.header)
  /\ pc' = "header_bytes"
  /\ UNCHANGED <<table, result, sel>>

HeaderFromBytes ==
  /\ pc = "header_bytes"
  /\ result' = PackageTableHeader_from_bytes(bytes)
  /\ pc' = "header_done"
  /\ UNCHANGED <<table, bytes, sel>>

NodeAsBytes ==
  /\ pc = "start"
  /\ \E i \in 1..Len(table.nodes) :
       /\ sel' = i
       /\ bytes' = PackageTableNode_as_bytes(table.nodes[i])
  /\ pc' = "node_bytes"
  /\ UNCHANGED <<table, result>>

NodeFromBytes ==
  /\ pc = "node_bytes"
  /\ result' = PackageTableNode_from_bytes(bytes)
  /\ pc' = "node_done"
  /\ UNCHANGED <<table, bytes, sel>>

TableAsBytes ==
  /\ pc = "start"
  /\ bytes' = PackageTable_as_bytes(table)
  /\ pc' = "table_bytes"
  /\ UNCHANGED <<table, result, sel>>

TableFromBytes ==
  /\ pc = "table_bytes"
  /\ result' = PackageTable_from_bytes(bytes)
  /\ pc' = "table_done"
  /\ UNCHANGED <<table, bytes, sel>>

\* What the serializer of the current session wrote.
Serialized ==
  IF pc \in {"header_bytes", "header_done"}
  THEN PackageTableHeader_as_bytes(table.header)
  ELSE IF pc \in {"node_bytes", "node_done"}
  THEN PackageTableNode_as_bytes(table.nodes[sel])
  ELSE IF pc \in {"table_bytes", "table_done"}
  THEN PackageTable_as_bytes(table)
  ELSE <<>>

\* The caller hands the parser a strict prefix of the serialization.
Truncate ==
  /\ pc \in {"header_bytes", "node_bytes", "table_bytes"}
  /\ bytes = Serialized
  /\ \E k \in 0..(Len(bytes) - 1) : bytes' = SubSeq(bytes, 1, k)
  /\ UNCHANGED <<table, result, pc, sel>>

\* The serialization is followed by more bytes of a larger buffer.
AppendBytes ==
  /\ pc \in {"header_bytes", "node_bytes"}
  /\ Len(bytes) >= Len(Serialized)
  /\ Len(bytes) < Len(Serialized) + MaxExtra
  /\ \E b \in ExtraBytes : bytes' = Append(bytes, b)
  /\ UNCHANGED <<table, result, pc, sel>>

Next ==
  \/ HeaderAsBytes
  \/ HeaderFromBytes
  \/ NodeAsBytes
  \/ NodeFromBytes
  \/ TableAsBytes
  \/ TableFromBytes
  \/ Truncate
  \/ AppendBytes

Spec == Init /\ [][Next]_vars

(***************************************************************************)
(* Vocabulary of the properties.                                           *)
(***************************************************************************)
\* The bucket and node counts agree with the header.
ValidShape(t) ==
  /\ Len(t.buckets) = get_table_size(t.header.num_packages).val
  /\ Len(t.nodes) = t.header.num_packages

HasSomeZero(t) ==
  \/ \E i \in 1..Len(t.buckets) : t.buckets[i] = Some(0)
  \/ \E j \in 1..Len(t.nodes) : t.nodes[j].next_offset = Some(0)

ValidTable(t) == ValidShape(t) /\ ~HasSomeZero(t)

\* The table with every Some(0) replaced by None.
ZeroToNone(o) == IF o = Some(0) THEN None ELSE o

Normalized(t) ==
  [header |-> t.header,
   buckets |-> [i \in 1..Len(t.buckets) |-> ZeroToNone(t.buckets[i])],
   nodes |-> [j \in 1..Len(t.nodes) |->
                [t.nodes[j] EXCEPT !.next_offset = ZeroToNone(@)]]]

\* Four bytes of a buffer, from the 0-based position `at`, as a little-endian
\* integer.
WordAt(buf, at) ==
  buf[at + 1] + 256 * buf[at + 2] + 65536 * buf[at + 3] + 16777216 * buf[at + 4]

HeaderLen(h) == 24 + Len(h.container)

NodeLen(n) == 16 + Len(n.package_name)

RECURSIVE NodesLen(_)
NodesLen(ns) == IF ns = <<>> THEN 0 ELSE NodeLen(ns[1]) + NodesLen(Tail(ns))

\* 0-based offset of node j in the serialization of t.
NodeStart(t, j) ==
  HeaderLen(t.header) + 4 * Len(t.buckets) + NodesLen(SubSeq(t.nodes, 1, j - 1))

Whole == bytes = Serialized

\* C1: a valid table (counts agree with the header, no Some(0)) that is
\* serialized and parsed back comes back equal: same header, same buckets,
\* same nodes in the same order.
C1_TableRoundTrip ==
  (pc = "table_done" /\ Whole /\ ValidTable(table))
    => (result.tag = "Ok" /\ result.val = table)

C1_Witness ==
  /\ pc = "table_done" /\ Whole /\ ValidTable(table)
  /\ Len(table.nodes) = 2
  /\ table.nodes[1].package_name # table.nodes[2].package_name
  /\ table.nodes[1].next_offset # None
  /\ \E i \in 1..Len(table.buckets) : table.buckets[i] # None
  /\ result.tag = "Ok"

\* C2: the first four bytes of a serialized table, read as a little-endian
\* u32, are the version of its header, whatever the rest of the table is.
C2_VersionFirst ==
  (pc \in {"table_bytes", "table_done"} /\ Whole)
    => (Len(bytes) >= 4 /\ WordAt(bytes, 0) = table.header.version)

C2_Witness ==
  /\ pc = "table_bytes" /\ Whole
  /\ table.header.version = 1234
  /\ table.header.container # <<>>
  /\ table.nodes # <<>>

\* C3: a node that is serialized and parsed back keeps its name, id and
\* boolean offset; a next offset of None comes back as None (not Some(0)) and
\* Some(k) with k > 0 comes back as Some(k).
C3_NodeSentinel ==
  (pc = "node_done" /\ Whole)
    => LET n == table.nodes[sel]
       IN /\ result.tag = "Ok"
          /\ result.val.package_name = n.package_name
          /\ result.val.package_id = n.package_id
          /\ result.val.boolean_offset = n.boolean_offset
          /\ (n.next_offset = None =>
                (result.val.next_offset = None /\ result.val.next_offset # Some(0)))
          /\ ((n.next_offset # None /\ n.next_offset[1] > 0) =>
                result.val.next_offset = n.next_offset)

C3_Witness ==
  /\ pc = "node_done" /\ Whole
  /\ table.nodes[sel].next_offset = None
  /\ result.tag = "Ok"
  /\ result.val.next_offset = None

\* C6: the serialization of a table is its header's bytes, then one
\* little-endian word per bucket slot in slot order (0 for an empty slot),
\* then the bytes of each node in list order; a node takes 16 bytes plus its
\* name, and the total length is the sum of the parts.
C6_EncodeLayout ==
  (pc = "table_bytes" /\ Whole)
    => LET hlen == Len(PackageTableHeader_as_bytes(table.header))
       IN /\ Len(bytes) = hlen + 4 * Len(table.buckets) + NodesLen(table.nodes)
          /\ hlen = HeaderLen(table.header)
          /\ SubSeq(bytes, 1, hlen) = PackageTableHeader_as_bytes(table.header)
          /\ \A i \in 1..Len(table.buckets) :
               WordAt(bytes, hlen + 4 * (i - 1)) = unwrap_or(table.buckets[i], 0)
          /\ \A j \in 1..Len(table.nodes) :
               /\ Len(PackageTableNode_as_bytes(table.nodes[j])) = NodeLen(table.nodes[j])
               /\ SubSeq(bytes, NodeStart(table, j) + 1,
                         NodeStart(table, j) + NodeLen(table.nodes[j]))
                    = PackageTableNode_as_bytes(table.nodes[j])

C6_Witness ==
  /\ pc = "table_bytes" /\ Whole
  /\ Len(table.nodes) = 2
  /\ Len(table.nodes[1].package_name) # Len(table.nodes[2].package_name)
  /\ \E i \in 1..Len(table.buckets) : table.buckets[i] \notin {None, Some(0)}

\* C4: parsing a strict prefix of the serialization of a valid table is a
\* parse failure (BytesParseFail): never a panic, never Ok.
C4_TruncationSafety ==
  (pc = "table_done" /\ ValidTable(table) /\ Len(bytes) < Len(Serialized))
    => (result.tag = "Err" /\ result.kind = "BytesParseFail")

\* The nodes that are complete in a buffer from the 0-based position `at`,
\* counted up to `max`.
RECURSIVE CompleteNodes(_, _, _)
CompleteNodes(buf, at, max) ==
  IF max = 0 \/ at + 4 > Len(buf) THEN 0
  ELSE LET l == WordAt(buf, at)
       IN IF at + 16 + l > Len(buf) \/ ~Utf8Valid(SubSeq(buf, at + 5, at + 4 + l))
          THEN 0
          ELSE 1 + CompleteNodes(buf, at + 16 + l, max - 1)

\* The buffer holds the whole header and the whole bucket array the header
\* calls for, and fewer complete nodes than the header declares.
TooFewNodes ==
  LET n == table.header.num_packages
      at == HeaderLen(table.header) + 4 * get_table_size(n).val
  IN /\ Len(bytes) >= at
     /\ CompleteNodes(bytes, at, n) < n

\* C5: when the header declares n packages, the bucket array is complete and
\* fewer than n complete nodes follow, the parse is a failure whose message
\* starts with "fail to parse package table"; and every table parsed has
\* exactly num_packages nodes and get_table_size(num_packages) bucket slots.
C5_DeclaredCount ==
  pc = "table_done" =>
    /\ TooFewNodes =>
         /\ result.tag = "Err"
         /\ result.kind = "BytesParseFail"
         /\ result.msg[1] = "fail to parse package table"
    /\ result.tag = "Ok" =>
         /\ Len(result.val.nodes) = result.val.header.num_packages
         /\ Len(result.val.buckets)
              = get_table_size(result.val.header.num_packages).val

C5_Witness ==
  /\ pc = "table_done" /\ Whole
  /\ TooFewNodes
  /\ Len(table.nodes) = 1
  /\ table.header.num_packages = 2
  /\ result.tag = "Err"
  /\ result.msg[1] = "fail to parse package table"

\* C7: parsing a header's bytes followed by any other bytes gives the header
\* back and consumes exactly the header's bytes; the table parser reads the
\* first bucket slot from the byte right after them.
C7_HeaderConsumed ==
  /\ (/\ pc = "header_done"
      /\ Len(bytes) >= Len(Serialized)
      /\ SubSeq(bytes, 1, Len(Serialized)) = Serialized)
       => /\ result.tag = "Ok"
          /\ result.val = table.header
          /\ result.head = Len(PackageTableHeader_as_bytes(table.header))
  /\ (pc = "table_done" /\ result.tag = "Ok")
       => LET h == PackageTableHeader_from_bytes(bytes)
              w == WordAt(bytes, h.head)
          IN /\ h.head = Len(PackageTableHeader_as_bytes(result.val.header))
             /\ result.val.buckets[1] = (IF w = 0 THEN None ELSE Some(w))

C7_Witness ==
  /\ pc = "header_done"
  /\ Len(bytes) > Len(Serialized)
  /\ SubSeq(bytes, 1, Len(Serialized)) = Serialized
  /\ table.header.container # <<>>
  /\ result.tag = "Ok"
  /\ result.head = Len(bytes) - 1

\* The chains of a table: the node indices met from each bucket head along
\* the next offsets; 0 marks an offset that is not the start of a node, or a
\* chain that does not end.
NodeStarts(t) == { NodeStart(t, j) : j \in 1..Len(t.nodes) }

RECURSIVE Walk(_, _, _)
Walk(t, o, fuel) ==
  IF o = None THEN <<>>
  ELSE IF fuel = 0 \/ o[1] \notin NodeStarts(t) THEN <<0>>
  ELSE LET j == CHOOSE k \in 1..Len(t.nodes) : NodeStart(t, k) = o[1]
       IN <<j>> \o Walk(t, t.nodes[j].next_offset, fuel - 1)

RECURSIVE Visits(_, _)
Visits(t, i) ==
  IF i > Len(t.buckets) THEN <<>>
  ELSE Walk(t, t.buckets[i], Len(t.nodes)) \o Visits(t, i + 1)

ChainsReachAll(t) ==
  LET v == Visits(t, 1)
  IN /\ \A i \in 1..Len(v) : v[i] # 0
     /\ Len(v) = t.header.num_packages
     /\ \A j \in 1..Len(t.nodes) : Cardinality({ i \in 1..Len(v) : v[i] = j }) = 1

\* C8: in every table the parser returns, each non-empty bucket slot is the
\* offset of a node start, each chain ends at a node with no next offset, and
\* the chains together meet each of the num_packages nodes exactly once.
C8_ChainReachability ==
  (pc = "table_done" /\ result.tag = "Ok") => ChainsReachAll(result.val)

\* The values tried for file_size, bucket_offset and node_offset.
AltFields == { <<0, 0, 0>>, <<1, 70, 60>>, <<89, 26, 54>> }

WithFields(t, f) ==
  [t EXCEPT !.header.file_size = f[1],
            !.header.bucket_offset = f[2],
            !.header.node_offset = f[3]]

\* C9: file_size, bucket_offset and node_offset play no part in parsing: a
\* buffer that differs from the parsed one only in these three fields parses
\* when and only when the parsed one does, to the same buckets and nodes; and
\* a whole table whose counts agree parses whatever these fields hold (zero,
\* node_offset <= bucket_offset, file_size unlike the buffer length).
C9_OffsetsIgnored ==
  pc = "table_done" =>
    \A f \in AltFields :
      LET b2 == SubSeq(PackageTable_as_bytes(WithFields(table, f)), 1, Len(bytes))
          r2 == PackageTable_from_bytes(b2)
      IN /\ r2.tag = result.tag
         /\ result.tag = "Ok" =>
              /\ r2.val.buckets = result.val.buckets
              /\ r2.val.nodes = result.val.nodes
              /\ r2.val.header = WithFields(result.val, f).header
         /\ (Whole /\ ValidShape(table)) => r2.tag = "Ok"

C9_Witness ==
  /\ pc = "table_done" /\ Whole
  /\ table.header.bucket_offset = 0
  /\ table.header.node_offset = 0
  /\ table.header.file_size # Len(bytes)
  /\ table.nodes # <<>>
  /\ result.tag = "Ok"
  /\ result.val.nodes = table.nodes

\* C10 as stated: for any table, the serialization does not change when a
\* Some(0) is replaced by None, a parsed table holds no Some(0), and the
\* table parsed back from the serialization differs from the table exactly
\* when the table holds a Some(0).  (Read for the parses that return: a parse
\* that panics returns no table to compare.)
C10_AsStated ==
  /\ (pc \in {"table_bytes", "table_done"} /\ Whole)
       => bytes = PackageTable_as_bytes(Normalized(table))
  /\ (pc = "table_done" /\ result.tag = "Ok") => ~HasSomeZero(result.val)
  /\ (pc = "table_done" /\ Whole /\ result.tag # "Panic")
       => ((result.tag # "Ok" \/ result.val # table) <=> HasSomeZero(table))

\* C10 amended: the last part holds for the tables whose bucket and node
\* counts agree with the header; such a table parses back to itself with
\* every Some(0) replaced by None.
C10_SomeZeroCollapses ==
  /\ (pc \in {"table_bytes", "table_done"} /\ Whole)
       => bytes = PackageTable_as_bytes(Normalized(table))
  /\ (pc = "table_done" /\ result.tag = "Ok") => ~HasSomeZero(result.val)
  /\ (pc = "table_done" /\ Whole /\ ValidShape(table))
       => /\ result.tag = "Ok"
          /\ result.val = Normalized(table)
          /\ (result.val # table <=> HasSomeZero(table))

C10_Witness ==
  /\ pc = "table_done" /\ Whole /\ ValidShape(table)
  /\ table.buckets[1] = Some(0)
  /\ \E j \in 1..Len(table.nodes) : table.nodes[j].next_offset = Some(0)
  /\ result.tag = "Ok"
  /\ result.val # table
  /\ result.val.buckets[1] = None

====
